---- MODULE Spec2Model ----
(***************************************************************************)
(* photo-gallery (src/main.go): the deduplicating gallery cache            *)
(* (galleryCache.add / addWithPhash) and the concurrent ingestion pipeline *)
(* of run (walker, workers, errgroup, finalisation, snapshot).             *)
(***************************************************************************)
EXTENDS Integers, Sequences, FiniteSets, TLC

(* ------------------------------ bounds -------------------------------- *)

\* number of worker goroutines (runtime.GOMAXPROCS(0) in run)
NumWorkers == 2

\* longest record list a snapshot holds when it is loaded
MaxPreload == 2

\* most files the walked source tree holds
MaxFiles == 3

\* most calls of page.add the callers of the cache make
MaxAdds == 3

\* largest width and height of an original image
MaxDim == 7

\* largest value of a field of a transform
MaxField == 4

(* ------------------------- program constants -------------------------- *)

\* const minDiff = 5: the phash distance similarity threshold
minDiff == 5

(* ----------------------------- universes ------------------------------ *)

Workers == 1..NumWorkers

\* 64-bit fingerprints the model draws from: 100, 101 and 500 are the ones
\* of the documented scenario, 267 lies between 100 and 500 and is far, in
\* bits, from both
HashValues == {100, 101, 267, 500}

\* source paths of the images
Sources == {"a.jpg", "b.jpg"}

\* capture times (UTC instants)
Times == {1, 2}

(* --------------------------- pure functions --------------------------- *)

\* phash.Distance(a, b): the number of bit positions in which the two
\* 64-bit hashes differ (Hamming distance)
RECURSIVE Distance(_, _)
Distance(a, b) ==
    IF a = 0 /\ b = 0 THEN 0
    ELSE (IF (a % 2) # (b % 2) THEN 1 ELSE 0) + Distance(a \div 2, b \div 2)

\* v >> (8 * k)
RECURSIVE ShiftRightBytes(_, _)
ShiftRightBytes(v, k) ==
    IF k = 0 THEN v ELSE ShiftRightBytes(v \div 256, k - 1)

\* idToBytes(v): the 8 bytes of v, big-endian: byte(v>>56), ..., byte(v)
idToBytes(v) ==
    [k \in 1..8 |-> ShiftRightBytes(v, 8 - k) % 256]

\* imageDetails.ID(): base64.RawURLEncoding of idToBytes(Hash): the 64 bits
\* cut into 11 groups of 6 bits from the most significant one (the last
\* group holds the 4 lowest bits followed by two zero bits, no padding);
\* each group stands for its letter of the URL alphabet
ID(v) ==
    LET bytes == idToBytes(v)
        bit(j) == (bytes[(j \div 8) + 1] \div (2 ^ (7 - (j % 8)))) % 2
        sextet(k) ==
            LET b(j) == IF j < 64 THEN bit(j) ELSE 0
                o == 6 * (k - 1)
            IN  32 * b(o) + 16 * b(o + 1) + 8 * b(o + 2)
                + 4 * b(o + 3) + 2 * b(o + 4) + b(o + 5)
    IN  [k \in 1..11 |-> sextet(k)]

\* fmt.Sprintf("%x", id): the hexadecimal digits of id, most significant first
RECURSIVE HexDigits(_)
HexDigits(v) ==
    IF v < 16 THEN <<v>> ELSE Append(HexDigits(v \div 16), v % 16)

\* the Original field a worker derives for an image: the name
\* fmt.Sprintf("%x%s", id, filepath.Ext(p)) in the full-size directory
OriginalName(id) == <<"fullsize", HexDigits(id), ".jpg">>

\* imageDetails, as a worker fills it in before page.add
Details(hash, source, time) ==
    [Hash |-> hash, Source |-> source, Time |-> time,
     Original |-> OriginalName(hash)]

\* the records callers hand to add: every fingerprint, found in a.jpg or in
\* b.jpg at time 1, and fingerprint 100 in a.jpg at time 2 (the file was
\* touched since)
AllDetails ==
    {Details(h, s, 1) : h \in HashValues, s \in Sources}
        \cup {Details(100, "a.jpg", 2)}

\* the records a loaded snapshot is made of: every fingerprint as first
\* found in a.jpg at time 1, and 267 as found in b.jpg at time 2
PreloadDetails ==
    {Details(h, "a.jpg", 1) : h \in HashValues}
        \cup {Details(267, "b.jpg", 2)}

\* the zero imageDetails a worker holds between images
NoDetails == [Hash |-> 0, Source |-> "", Time |-> 0, Original |-> <<>>]

\* error values
NoErr == [kind |-> "nil"]

\* fmt.Errorf("gallery already has image with id %q: %q (original file name)")
DupExactErr(id, prev) == [kind |-> "dupExact", id |-> id, prev |-> prev]

\* fmt.Errorf("possible duplicate (phash similarity distance=%d) of %q
\* (source filename %q)")
DupNearErr(diff, info2) ==
    [kind |-> "dupNear", diff |-> diff, original |-> info2.Original,
     source |-> info2.Source]

\* fmt.Errorf("duplicate (same phash) of %q (source filename %q)")
DupSameErr(info2) ==
    [kind |-> "dupSame", original |-> info2.Original, source |-> info2.Source]

\* sort.SliceStable(c.Images, Hash <): a stable sort by increasing Hash
\* (insertion of each element after the elements not larger than it)
RECURSIVE InsertStable(_, _)
InsertStable(sorted, x) ==
    IF sorted = <<>> THEN <<x>>
    ELSE IF x.Hash < Head(sorted).Hash THEN <<x>> \o sorted
    ELSE <<Head(sorted)>> \o InsertStable(Tail(sorted), x)

RECURSIVE SortStableByHash(_)
SortStableByHash(s) ==
    IF s = <<>> THEN <<>>
    ELSE InsertStable(SortStableByHash(SubSeq(s, 1, Len(s) - 1)), s[Len(s)])

\* sort.Search(len(c.Images), Images[i].Hash >= h): Go's binary search, as
\* a 1-based index (len+1 stands for Go's len)
RECURSIVE SearchFrom(_, _, _, _)
SearchFrom(images, h, i, j) ==
    IF i < j
    THEN LET m == (i + j) \div 2
         IN  IF ~(images[m + 1].Hash >= h)
             THEN SearchFrom(images, h, m + 1, j)
             ELSE SearchFrom(images, h, i, m)
    ELSE i + 1

Search(images, h) == SearchFrom(images, h, 0, Len(images))

\* the map add builds on its first exact-mode call: for each record in
\* order, dups[info.Hash] = info.Source (a later record overwrites)
RECURSIVE BuildDups(_)
BuildDups(images) ==
    IF images = <<>> THEN [x \in {} |-> ""]
    ELSE LET rest == BuildDups(SubSeq(images, 1, Len(images) - 1))
             last == images[Len(images)]
         IN  [x \in (DOMAIN rest) \cup {last.Hash} |->
                 IF x = last.Hash THEN last.Source ELSE rest[x]]

MapPut(m, k, v) ==
    [x \in (DOMAIN m) \cup {k} |-> IF x = k THEN v ELSE m[x]]

HashesOf(images) == [i \in 1..Len(images) |-> images[i].Hash]

HashSet(images) == {images[i].Hash : i \in 1..Len(images)}

SortedByHash(images) ==
    \A i \in 1..(Len(images) - 1) : images[i].Hash <= images[i + 1].Hash

\* what sortByTime leaves: newest first (sort.Slice, order of equal times free)
SortedByTimeDesc(images) ==
    \A i \in 1..(Len(images) - 1) : images[i].Time >= images[i + 1].Time

(* ------------------------- transform.newDimensions --------------------- *)

\* type transform struct { Width, Height, MaxWidth, MaxHeight int }
Transform(width, height, maxWidth, maxHeight) ==
    [Width |-> width, Height |-> height,
     MaxWidth |-> maxWidth, MaxHeight |-> maxHeight]

\* a pair of image dimensions
Size(w, h) == [W |-> w, H |-> h]

\* errors.New("no valid dimensions specified")
NoDimensionsErr == [kind |-> "noDimensions"]

\* errors.New("invalid source dimensions")
InvalidSourceErr == [kind |-> "invalidSource"]

\* fmt.Errorf("invalid transform %v", tr)
InvalidTransformErr(t) == [kind |-> "invalidTransform", tr |-> t]

\* newTransform(width, height, maxWidth, maxHeight)
NewTransform(a) ==
    IF a.Width = 0 /\ a.Height = 0 /\ a.MaxWidth = 0 /\ a.MaxHeight = 0
    THEN [tr |-> Transform(0, 0, 0, 0), err |-> NoDimensionsErr]
    ELSE [tr |-> Transform(a.Width, a.Height, a.MaxWidth, a.MaxHeight),
          err |-> NoErr]

\* a scaling that rounds up
ScaleUp(a, b, c) == (a * b + c - 1) \div c

\* a * b / c in Go's int arithmetic (operands not negative: the quotient
\* is truncated)
Scale(a, b, c) == (a * b) \div c

\* a fit test that never holds
FitsNever(ow, oh, w, h) == FALSE

\* origWidth <= w && origHeight <= h: the image already fits
Fits(ow, oh, w, h) == ow <= w /\ oh <= h

\* the comparison the other way round
NarrowerThan(ow, oh, w, h) == ow * h < w * oh

\* float64(origWidth)/float64(origHeight) > float64(w)/float64(h), for
\* positive operands; for dimensions of this size the two quotients round
\* to different float64 values whenever they differ, so the comparison is
\* that of the fractions
WiderThan(ow, oh, w, h) == ow * h > w * oh

\* a second case that wants both fields
PlainPolicyBoth(t) == t.Width > 0 /\ t.Height > 0

\* case tr.Width > 0 || tr.Height > 0
PlainPolicy(t) == t.Width > 0 \/ t.Height > 0

\* case tr.MaxWidth > 0 || tr.MaxHeight > 0
MaxPolicy(t) == t.MaxWidth > 0 \/ t.MaxHeight > 0

\* w, h after "if w == 0 {...}; if h == 0 {...}": a missing dimension is
\* computed from the other one by the original aspect ratio
FillIn(w, h, ow, oh) ==
    LET w1 == IF w = 0 THEN Scale(ow, h, oh) ELSE w
        h1 == IF h = 0 THEN Scale(oh, w1, ow) ELSE h
    IN  Size(w1, h1)

\* tr.newDimensions(origWidth, origHeight)
NewDimensions(t, ow, oh) ==
    IF ow = 0 \/ oh = 0
    THEN [w |-> 0, h |-> 0, err |-> InvalidSourceErr]
    ELSE IF MaxPolicy(t)
    THEN LET box == FillIn(t.MaxWidth, t.MaxHeight, ow, oh)
         IN  IF Fits(ow, oh, box.W, box.H)
             THEN [w |-> ow, h |-> oh, err |-> NoErr]
             ELSE IF t.MaxWidth > 0 /\ t.MaxHeight > 0
             THEN IF WiderThan(ow, oh, box.W, box.H)
                  THEN [w |-> box.W, h |-> Scale(oh, box.W, ow), err |-> NoErr]
                  ELSE [w |-> Scale(ow, box.H, oh), h |-> box.H, err |-> NoErr]
             ELSE [w |-> box.W, h |-> box.H, err |-> NoErr]
    ELSE IF PlainPolicy(t)
    THEN LET box == FillIn(t.Width, t.Height, ow, oh)
         IN  [w |-> box.W, h |-> box.H, err |-> NoErr]
    ELSE [w |-> 0, h |-> 0, err |-> InvalidTransformErr(t)]

(* ------------------------------- state -------------------------------- *)

VARIABLES
    UsePhash,   \* galleryCache.UsePhash
    Images,     \* galleryCache.Images
    dupsNil,    \* galleryCache.dups == nil
    dups,       \* galleryCache.dups (when not nil)
    n,          \* galleryCache.n
    mu,         \* galleryCache.mu: 0 when free, else the worker holding it
    once,       \* galleryCache.onceSortPhash: "new", "running" or "done"
    pc,         \* where each worker is
    cur,        \* the imageDetails each worker is handling
    err,        \* the error page.add returned to each worker
    files,      \* the source tree, in the order filepath.Walk visits it
    widx,       \* the walker's position: the next entry of files
    sent,       \* the walker's n: paths handed to workers
    chClosed,   \* whether ch is closed (the walker has returned)
    gerr,       \* errgroup: the first error returned by a task
    cancelled,  \* errgroup: whether ctx is cancelled
    taskDone,   \* errgroup: the tasks that have returned
    taskErr,    \* what each task returned
    opc,        \* where run itself is
    runErr,     \* what run returned
    cacheArg,   \* args.Cache != ""
    cacheFile,  \* the snapshot file at args.Cache
    tmpFile,    \* saveCache's temporary file
    html,       \* whether args.HTML has been written
    thumbs,     \* the thumbnail files that exist, by fingerprint
    origs,      \* the full-size copies that exist, by fingerprint
    Images0,    \* history: the records loaded from the snapshot
    cacheFile0, \* history: the snapshot file at process start
    failOrder,  \* history: the tasks that returned an error, in order
    okHashes,   \* history: fingerprints for which add returned nil
    returned,   \* history: whether some add call has returned
    calls,      \* history: the number of add calls made by direct callers
    handed,     \* history: the paths workers received from ch, in order
    finished,   \* history: the number of received paths a worker is done with
    runNo,      \* history: which run of the program this is (1 or 2)
    targs,      \* the arguments of newTransform
    tr,         \* the transform newTransform returned
    terr,       \* the error newTransform returned
    orig,       \* the arguments of newDimensions: origWidth, origHeight
    dims,       \* what newDimensions returned: width, height, err
    dpc,        \* where the caller of newTransform / newDimensions is
    thumbsPartial, \* the thumbnail files that exist and are being written
    origsPartial,  \* the full-size copies that exist and are being written
    addCount    \* history: the number of add calls that have returned

cacheVars == <<UsePhash, Images, dupsNil, dups, n, mu, once>>

workerVars == <<pc, cur, err>>

walkVars == <<files, widx, sent, chClosed>>

groupVars == <<gerr, cancelled, taskDone, taskErr, failOrder>>

orchVars == <<opc, runErr>>

diskVars == <<cacheArg, cacheFile, cacheFile0, tmpFile, html, thumbs, origs>>

trackVars == <<handed, finished, runNo>>

dimVars == <<targs, tr, terr, orig, dims, dpc>>

fileVars == <<thumbsPartial, origsPartial>>

pipeVars ==
    <<walkVars, groupVars, orchVars, diskVars, trackVars, dimVars, fileVars>>

vars ==
    <<cacheVars, workerVars, pipeVars, Images0, okHashes, returned, calls,
      addCount>>

(* -------------------- galleryCache.add, step by step ------------------- *)

\* a snapshot this program can have saved: at most MaxPreload records, no
\* fingerprint twice, newest first, and in perceptual mode no two
\* neighbours (in fingerprint order) within minDiff
RECURSIVE SeqsUpTo(_, _)
SeqsUpTo(S, k) ==
    IF k = 0 THEN {<<>>}
    ELSE LET shorter == SeqsUpTo(S, k - 1)
         IN  shorter \cup
             {Append(s, x) : s \in {t \in shorter : Len(t) = k - 1}, x \in S}

Snapshots(phash) ==
    {s \in SeqsUpTo(PreloadDetails, MaxPreload) :
        /\ \A i, j \in 1..Len(s) : i # j => s[i].Hash # s[j].Hash
        /\ SortedByTimeDesc(s)
        /\ phash =>
             LET t == SortStableByHash(s)
             IN  \A i \in 1..(Len(t) - 1) :
                     Distance(t[i].Hash, t[i + 1].Hash) > minDiff}

\* c.onceSortPhash.Do entered by the first caller: it runs the sort, the
\* others wait in Do until it is done
OnceBegin(w) ==
    /\ pc[w] = "add"
    /\ UsePhash
    /\ once = "new"
    /\ once' = "running"
    /\ pc' = [pc EXCEPT ![w] = "sorting"]
    /\ UNCHANGED <<UsePhash, Images, dupsNil, dups, n, mu, cur, err,
                   Images0, okHashes, returned, calls>>
    /\ UNCHANGED pipeVars
    /\ UNCHANGED addCount

\* the function handed to onceSortPhash.Do: the initial stable sort
OnceSort(w) ==
    /\ pc[w] = "sorting"
    /\ Images' = SortStableByHash(Images)
    /\ once' = "done"
    /\ pc' = [pc EXCEPT ![w] = "lock"]
    /\ UNCHANGED <<UsePhash, dupsNil, dups, n, mu, cur, err,
                   Images0, okHashes, returned, calls>>
    /\ UNCHANGED pipeVars
    /\ UNCHANGED addCount

\* a Do that returns as soon as some caller has started the sort
OncePassStarted(w) ==
    /\ pc[w] = "add"
    /\ UsePhash
    /\ once # "new"
    /\ pc' = [pc EXCEPT ![w] = "lock"]
    /\ UNCHANGED <<cacheVars, cur, err, Images0, okHashes, returned, calls>>
    /\ UNCHANGED pipeVars
    /\ UNCHANGED addCount

\* c.onceSortPhash.Do when the sort has been done: returns at once
OncePass(w) ==
    /\ pc[w] = "add"
    /\ UsePhash
    /\ once = "done"
    /\ pc' = [pc EXCEPT ![w] = "lock"]
    /\ UNCHANGED <<cacheVars, cur, err, Images0, okHashes, returned, calls>>
    /\ UNCHANGED pipeVars
    /\ UNCHANGED addCount

\* a Lock that does not wait for the holder of the mutex
LockNoWait(w) ==
    /\ \/ pc[w] = "add" /\ ~UsePhash
       \/ pc[w] = "lock"
    /\ mu' = w
    /\ pc' = [pc EXCEPT ![w] = "body"]
    /\ UNCHANGED <<UsePhash, Images, dupsNil, dups, n, once, cur, err,
                   Images0, okHashes, returned, calls>>
    /\ UNCHANGED pipeVars
    /\ UNCHANGED addCount

\* c.mu.Lock(), in add (exact mode) or in addWithPhash (after the once)
Lock(w) ==
    /\ \/ pc[w] = "add" /\ ~UsePhash
       \/ pc[w] = "lock"
    /\ mu = 0
    /\ mu' = w
    /\ pc' = [pc EXCEPT ![w] = "body"]
    /\ UNCHANGED <<UsePhash, Images, dupsNil, dups, n, once, cur, err,
                   Images0, okHashes, returned, calls>>
    /\ UNCHANGED pipeVars
    /\ UNCHANGED addCount

\* a cache without the registration of a newly appended record in dups
AddExactResultUnregistered(images, isNil, m, cnt, info) ==
    LET d == IF isNil THEN BuildDups(images) ELSE m
    IN  IF info.Hash \in DOMAIN d
        THEN IF d[info.Hash] = info.Source
             THEN [Images |-> images, dups |-> d, n |-> cnt, err |-> NoErr]
             ELSE [Images |-> images, dups |-> d, n |-> cnt,
                   err |-> DupExactErr(ID(info.Hash), d[info.Hash])]
        ELSE [Images |-> Append(images, info), dups |-> d,
              n |-> cnt + 1, err |-> NoErr]

\* a cache that counts a re-submitted record as added
AddExactResultCountsResubmit(images, isNil, m, cnt, info) ==
    LET d == IF isNil THEN BuildDups(images) ELSE m
    IN  IF info.Hash \in DOMAIN d
        THEN IF d[info.Hash] = info.Source
             THEN [Images |-> images, dups |-> d, n |-> cnt + 1, err |-> NoErr]
             ELSE [Images |-> images, dups |-> d, n |-> cnt,
                   err |-> DupExactErr(ID(info.Hash), d[info.Hash])]
        ELSE [Images |-> Append(images, info),
              dups |-> MapPut(d, info.Hash, info.Source),
              n |-> cnt + 1, err |-> NoErr]

\* the outcome of add's exact-mode critical section on (images, map, n):
\* the lazily built map, the lookup, and the append
AddExactResult(images, isNil, m, cnt, info) ==
    LET d == IF isNil THEN BuildDups(images) ELSE m
    IN  IF info.Hash \in DOMAIN d
        THEN IF d[info.Hash] = info.Source
             THEN [Images |-> images, dups |-> d, n |-> cnt, err |-> NoErr]
             ELSE [Images |-> images, dups |-> d, n |-> cnt,
                   err |-> DupExactErr(ID(info.Hash), d[info.Hash])]
        ELSE [Images |-> Append(images, info),
              dups |-> MapPut(d, info.Hash, info.Source),
              n |-> cnt + 1, err |-> NoErr]

\* an append that never looks at the last element
TailNearSkipped(images, info) == FALSE

\* addWithPhash, i == len(c.Images): whether the last element (if any) is
\* within minDiff of the incoming record
TailNear(images, info) ==
    /\ Len(images) # 0
    /\ Distance(info.Hash, images[Len(images)].Hash) <= minDiff

\* a re-submission test that forgets the capture time
SameImageBySourceOnly(info2, info) == info2.Source = info.Source

\* addWithPhash, equal fingerprints: the attempt to re-add the same image
SameImage(info2, info) ==
    info2.Source = info.Source /\ info2.Time = info.Time

\* an addWithPhash that does not look at the element to the right
RightNearSkipped(images, i, info) == FALSE

\* addWithPhash: whether the element at the insertion index is within minDiff
RightNear(images, i, info) ==
    Distance(info.Hash, images[i].Hash) <= minDiff

\* an insertion that never looks at the element before the index
LeftNearSkipped(images, i, info) == FALSE

\* addWithPhash: whether the element before the insertion index (if any)
\* is within minDiff
LeftNear(images, i, info) ==
    i > 1 /\ Distance(info.Hash, images[i - 1].Hash) <= minDiff

\* an insertion one place too far to the right
InsertAtNext(images, i, info) ==
    SubSeq(images, 1, i) \o <<info>> \o SubSeq(images, i + 1, Len(images))

\* addWithPhash: head := c.Images[:i+1]; tail := copy of c.Images[i:];
\* head[i] = info; c.Images = append(head, tail...)
InsertAt(images, i, info) ==
    LET head == [SubSeq(images, 1, i) EXCEPT ![i] = info]
        tail == SubSeq(images, i, Len(images))
    IN  head \o tail

\* an addWithPhash in which a record of equal fingerprint from another
\* source takes the place of the one in the cache
AddPhashResultLastWins(images, cnt, info) ==
    LET i == Search(images, info.Hash)
        reject(e) == [Images |-> images, n |-> cnt, err |-> e]
    IN  IF i = Len(images) + 1
        THEN IF TailNear(images, info)
             THEN reject(DupNearErr(Distance(info.Hash, images[i - 1].Hash),
                                    images[i - 1]))
             ELSE [Images |-> Append(images, info), n |-> cnt + 1,
                   err |-> NoErr]
        ELSE IF images[i].Hash = info.Hash
        THEN IF SameImage(images[i], info)
             THEN [Images |-> images, n |-> cnt, err |-> NoErr]
             ELSE [Images |-> [images EXCEPT ![i] = info], n |-> cnt,
                   err |-> DupSameErr(images[i])]
        ELSE IF RightNear(images, i, info)
        THEN reject(DupNearErr(Distance(info.Hash, images[i].Hash), images[i]))
        ELSE IF LeftNear(images, i, info)
        THEN reject(DupNearErr(Distance(info.Hash, images[i - 1].Hash),
                               images[i - 1]))
        ELSE [Images |-> InsertAt(images, i, info), n |-> cnt + 1,
              err |-> NoErr]

\* the outcome of addWithPhash's critical section on (images, n)
AddPhashResult(images, cnt, info) ==
    LET i == Search(images, info.Hash)
        reject(e) == [Images |-> images, n |-> cnt, err |-> e]
    IN  IF i = Len(images) + 1
        THEN IF TailNear(images, info)
             THEN reject(DupNearErr(Distance(info.Hash, images[i - 1].Hash),
                                    images[i - 1]))
             ELSE [Images |-> Append(images, info), n |-> cnt + 1,
                   err |-> NoErr]
        ELSE IF images[i].Hash = info.Hash
        THEN IF SameImage(images[i], info)
             THEN [Images |-> images, n |-> cnt, err |-> NoErr]
             ELSE reject(DupSameErr(images[i]))
        ELSE IF RightNear(images, i, info)
        THEN reject(DupNearErr(Distance(info.Hash, images[i].Hash), images[i]))
        ELSE IF LeftNear(images, i, info)
        THEN reject(DupNearErr(Distance(info.Hash, images[i - 1].Hash),
                               images[i - 1]))
        ELSE [Images |-> InsertAt(images, i, info), n |-> cnt + 1,
              err |-> NoErr]

\* the critical section of add, up to the deferred c.mu.Unlock()
AddBody(w) ==
    /\ pc[w] = "body"
    /\ mu = w
    /\ IF UsePhash
       THEN LET r == AddPhashResult(Images, n, cur[w])
            IN  /\ Images' = r.Images
                /\ n' = r.n
                /\ err' = [err EXCEPT ![w] = r.err]
                /\ okHashes' = IF r.err = NoErr
                               THEN okHashes \cup {cur[w].Hash} ELSE okHashes
                /\ UNCHANGED <<dupsNil, dups>>
       ELSE LET r == AddExactResult(Images, dupsNil, dups, n, cur[w])
            IN  /\ Images' = r.Images
                /\ n' = r.n
                /\ dups' = r.dups
                /\ dupsNil' = FALSE
                /\ err' = [err EXCEPT ![w] = r.err]
                /\ okHashes' = IF r.err = NoErr
                               THEN okHashes \cup {cur[w].Hash} ELSE okHashes
    /\ mu' = 0
    /\ returned' = TRUE
    /\ pc' = [pc EXCEPT ![w] = "added"]
    /\ UNCHANGED <<UsePhash, once, cur, Images0, calls>>
    /\ UNCHANGED pipeVars
    /\ addCount' = addCount + 1

(* ------------------- the state of the pipeline of run ------------------ *)

\* the walker task; the worker tasks are 1..NumWorkers
Walker == 0

Tasks == Workers \cup {Walker}

\* errors other than add's
IoErr(op, path) == [kind |-> "io", op |-> op, path |-> path]

\* ctx.Err() once the group's context is cancelled: context.Canceled
CanceledErr == [kind |-> "canceled"]

\* errors.New("no images found")
EmptyErr == [kind |-> "empty"]

\* the snapshot file: absent, or the JSON of the cache (UsePhash, Images)
Absent == [exists |-> FALSE]

\* the decimal digits of v, most significant first: Hash uint64 is
\* written as a JSON string (`json:",string"`)
RECURSIVE DecDigits(_)
DecDigits(v) ==
    IF v < 10 THEN <<v>> ELSE Append(DecDigits(v \div 10), v % 10)

\* the number a string of decimal digits stands for
RECURSIVE ParseDec(_)
ParseDec(ds) ==
    IF ds = <<>> THEN 0
    ELSE 10 * ParseDec(SubSeq(ds, 1, Len(ds) - 1)) + ds[Len(ds)]

\* json.Encoder.Encode of the records: the exported fields, Hash as a
\* string, Time as its instant
EncodeImages(images) ==
    [i \in 1..Len(images) |->
        [Hash |-> DecDigits(images[i].Hash), Source |-> images[i].Source,
         Time |-> images[i].Time, Original |-> images[i].Original]]

\* a decoder that does not read the Time field
DecodeImagesWithoutTime(js) ==
    [i \in 1..Len(js) |->
        [Hash |-> ParseDec(js[i].Hash), Source |-> js[i].Source,
         Time |-> 0, Original |-> js[i].Original]]

\* json.Decoder.Decode into the records
DecodeImages(js) ==
    [i \in 1..Len(js) |->
        [Hash |-> ParseDec(js[i].Hash), Source |-> js[i].Source,
         Time |-> js[i].Time, Original |-> js[i].Original]]

\* what saveCache writes: the exported fields of galleryCache (n, dups, mu
\* and onceSortPhash are not part of it)
SnapshotOf(phash, images) ==
    [exists |-> TRUE, UsePhash |-> phash, Images |-> EncodeImages(images)]

\* loadCache(name): the records of the snapshot file
LoadImages(file) == DecodeImages(file.Images)

\* run's transform, tr, err := newTransform(0, 0, 500, 500), which
\* createThumbnail hands to the workers; no newDimensions call is followed
DimsIdle ==
    /\ targs = Transform(0, 0, 500, 500)
    /\ tr = Transform(0, 0, 500, 500)
    /\ terr = NoErr
    /\ orig = Size(0, 0)
    /\ dims = [w |-> 0, h |-> 0, err |-> NoErr]
    /\ dpc = "idle"

\* no output file is being written
FilesIdle ==
    /\ thumbsPartial = {}
    /\ origsPartial = {}

\* the pipeline before run has started it (and for direct callers of add)
PipelineIdle ==
    /\ files = <<>>
    /\ widx = 1
    /\ sent = 0
    /\ chClosed = FALSE
    /\ gerr = NoErr
    /\ cancelled = FALSE
    /\ taskDone = {}
    /\ taskErr = [t \in Tasks |-> NoErr]
    /\ failOrder = <<>>
    /\ opc = "none"
    /\ runErr = NoErr
    /\ cacheArg = FALSE
    /\ cacheFile = Absent
    /\ cacheFile0 = Absent
    /\ tmpFile = "none"
    /\ html = "absent"
    /\ thumbs = {}
    /\ origs = {}
    /\ handed = <<>>
    /\ finished = 0
    /\ runNo = 1
    /\ FilesIdle

(* ------------- the cache driven directly by concurrent callers --------- *)

InitCache ==
    /\ UsePhash \in BOOLEAN
    /\ Images \in Snapshots(UsePhash)
    /\ Images0 = Images
    /\ dupsNil = TRUE
    /\ dups = [x \in {} |-> ""]
    /\ n = 0
    /\ mu = 0
    /\ once = "new"
    /\ pc = [w \in Workers |-> "idle"]
    /\ cur = [w \in Workers |-> NoDetails]
    /\ err = [w \in Workers |-> NoErr]
    /\ okHashes = {}
    /\ returned = FALSE
    /\ calls = 0
    /\ addCount = 0
    /\ PipelineIdle
    /\ DimsIdle

\* a caller hands a record to page.add
CallAdd(w) ==
    /\ pc[w] = "idle"
    /\ calls < MaxAdds
    /\ calls' = calls + 1
    /\ \E info \in AllDetails : cur' = [cur EXCEPT ![w] = info]
    /\ pc' = [pc EXCEPT ![w] = "add"]
    /\ UNCHANGED err
    /\ UNCHANGED <<cacheVars, Images0, okHashes, returned>>
    /\ UNCHANGED pipeVars
    /\ UNCHANGED addCount

\* the caller has seen add's result and may call again
AddDone(w) ==
    /\ pc[w] = "added"
    /\ pc' = [pc EXCEPT ![w] = "idle"]
    /\ cur' = [cur EXCEPT ![w] = NoDetails]
    /\ err' = [err EXCEPT ![w] = NoErr]
    /\ UNCHANGED <<cacheVars, Images0, okHashes, returned, calls>>
    /\ UNCHANGED pipeVars
    /\ UNCHANGED addCount

NextCache ==
    \E w \in Workers :
        \/ CallAdd(w)
        \/ OnceBegin(w)
        \/ OnceSort(w)
        \/ OncePass(w)
        \/ Lock(w)
        \/ AddBody(w)
        \/ AddDone(w)

SpecCache == InitCache /\ [][NextCache]_vars

(* ------------------------------ run ----------------------------------- *)

\* the paths of the source tree, in the lexical order of filepath.Walk
PathNames == <<"a.jpg", "b.jpg", "c.jpg", "d.jpg", "e.jpg">>

\* the fingerprints of the files of the tree
TreeHashes == {100, 267}

\* args.ThumbsDir and args.FullsizeDir, as filepath.Walk names them when
\* they lie under args.SrcDir
ThumbsDir == "thumbs"

FullsizeDir == "fullsize"

\* filepath.Ext(p): the suffix of p from the last dot of its last element
Ext(p) ==
    CASE p \in {"a.jpg", "b.jpg", "c.jpg", "d.jpg", "e.jpg"} -> ".jpg"
      [] p = "thumbs/64.jpg" -> ".jpg"
      [] p = "b.JPG" -> ".JPG"
      [] p = "c.Jpeg" -> ".Jpeg"
      [] p = "d.png" -> ".png"
      [] OTHER -> ""

\* the simple case folding of the extensions met (letters to lower case)
Fold(s) ==
    CASE s = ".JPG" -> ".jpg"
      [] s = ".Jpeg" -> ".jpeg"
      [] OTHER -> s

\* strings.EqualFold(s, t)
EqualFold(s, t) == Fold(s) = Fold(t)

\* an entry filepath.Walk visits: its path, whether info.Mode().IsRegular(),
\* the output directory it lies under (if any), and for an image the
\* fingerprint of its content and its capture time
Entry(path, regular, under, hash, time) ==
    [path |-> path, regular |-> regular, under |-> under,
     hash |-> hash, time |-> time]

\* a regular image file outside the output directories
ImageFile(path, hash) == Entry(path, TRUE, "", hash, 1)

\* walkFunc: p == args.ThumbsDir || p == args.FullsizeDir
IsOutputDir(e) == e.path = ThumbsDir \/ e.path = FullsizeDir

\* a walkFunc that compares the extension as it is spelled
SelectedCaseSensitive(e) ==
    /\ ~IsOutputDir(e)
    /\ ~(~e.regular \/ ~(Ext(e.path) = ".jpg" \/ Ext(e.path) = ".jpeg"))

\* walkFunc reaches its select for this entry: it is not an output
\* directory, and not (!info.Mode().IsRegular() || !(EqualFold(ext,
\* ".jpg") || EqualFold(ext, ".jpeg")))
Selected(e) ==
    /\ ~IsOutputDir(e)
    /\ ~(~e.regular
          \/ ~(EqualFold(Ext(e.path), ".jpg") \/ EqualFold(Ext(e.path), ".jpeg")))

\* the source trees: up to MaxFiles jpeg files, each with the fingerprint
\* of its content and its capture time
Trees ==
    UNION {{[i \in 1..k |-> ImageFile(PathNames[i], h[i])] :
               h \in [1..k -> TreeHashes]} : k \in 0..MaxFiles}

\* the snapshots found at args.Cache: saved by an earlier run over a.jpg
\* (fingerprint 100) and b.jpg (then of fingerprint 267, and newer)
RunSnapshots(phash) ==
    {s \in Snapshots(phash) :
        /\ s # <<>>
        /\ \A i \in 1..Len(s) :
            s[i] \in {Details(100, "a.jpg", 1), Details(267, "b.jpg", 2)}}

\* run up to group.Go: the arguments (validated, the output directories
\* made), the snapshot loaded by loadCache (a missing file leaves the fresh
\* cache; the loaded cache brings its own UsePhash), the workers and the
\* walker started
Init ==
    /\ UsePhash \in BOOLEAN
    /\ cacheArg \in BOOLEAN
    /\ cacheFile0 \in
        IF cacheArg
        THEN {Absent} \cup {SnapshotOf(UsePhash, s) : s \in RunSnapshots(UsePhash)}
        ELSE {Absent}
    /\ cacheFile = cacheFile0
    /\ Images = IF cacheFile0.exists THEN LoadImages(cacheFile0) ELSE <<>>
    /\ Images0 = Images
    /\ dupsNil = TRUE
    /\ dups = [x \in {} |-> ""]
    /\ n = 0
    /\ mu = 0
    /\ once = "new"
    /\ pc = [w \in Workers |-> "recv"]
    /\ cur = [w \in Workers |-> NoDetails]
    /\ err = [w \in Workers |-> NoErr]
    /\ files \in Trees
    /\ widx = 1
    /\ sent = 0
    /\ chClosed = FALSE
    /\ gerr = NoErr
    /\ cancelled = FALSE
    /\ taskDone = {}
    /\ taskErr = [t \in Tasks |-> NoErr]
    /\ failOrder = <<>>
    /\ opc = "wait"
    /\ runErr = NoErr
    /\ tmpFile = "none"
    /\ html = "absent"
    /\ thumbs = {}
    /\ origs = {}
    /\ okHashes = {}
    /\ returned = FALSE
    /\ calls = 0
    /\ addCount = 0
    /\ handed = <<>>
    /\ finished = 0
    /\ runNo = 1
    /\ FilesIdle
    /\ DimsIdle

\* an errgroup that keeps the last error returned
GroupErrLast(old, e) == IF e = NoErr THEN old ELSE e

\* errgroup: g.errOnce.Do(func() { g.err = err; cancel() }): the first
\* non-nil error a task returns is kept
GroupErr(old, e) == IF e # NoErr /\ old = NoErr THEN e ELSE old

\* a task function returns e to the errgroup: the first error is kept and
\* cancels ctx, and the task is done
TaskReturn(t, e) ==
    /\ taskErr' = [taskErr EXCEPT ![t] = e]
    /\ taskDone' = taskDone \cup {t}
    /\ failOrder' = IF e = NoErr THEN failOrder ELSE Append(failOrder, t)
    /\ gerr' = GroupErr(gerr, e)
    /\ cancelled' = (cancelled \/ e # NoErr)

\* a worker whose step failed returns the error: it is done with its path
WorkerFails(w, e) ==
    /\ pc' = [pc EXCEPT ![w] = "exit"]
    /\ finished' = finished + 1
    /\ TaskReturn(w, e)

\* a send into a buffered channel: it completes without a receiver
HandoffBuffered(w) ==
    /\ ~chClosed
    /\ widx <= Len(files)
    /\ Selected(files[widx])
    /\ widx' = widx + 1
    /\ sent' = sent + 1
    /\ UNCHANGED <<cacheVars, workerVars, files, chClosed, groupVars,
                   orchVars, diskVars, Images0, okHashes, returned, calls>>
    /\ UNCHANGED <<trackVars, dimVars, fileVars, addCount>>

\* walkFunc's select, case ch <- p, met by a worker's receive in
\* "for p := range ch": the channel is unbuffered, so the send and the
\* receive are one step. The select takes this case whenever a worker is
\* receiving, whether or not ctx.Done() is ready too. (The second select,
\* on ticker.C, only logs the count.)
Handoff(w) ==
    /\ ~chClosed
    /\ widx <= Len(files)
    /\ Selected(files[widx])
    /\ pc[w] = "recv"
    /\ cur' = [cur EXCEPT ![w] =
                 Details(files[widx].hash, files[widx].path, files[widx].time)]
    /\ pc' = [pc EXCEPT ![w] = "hash"]
    /\ widx' = widx + 1
    /\ sent' = sent + 1
    /\ UNCHANGED <<cacheVars, err, files, chClosed, groupVars, orchVars,
                   diskVars, Images0, okHashes, returned, calls>>
    /\ handed' = Append(handed, files[widx].path)
    /\ UNCHANGED <<finished, runNo, dimVars, fileVars, addCount>>

\* a walkFunc that only sends, ch <- p, without the case <-ctx.Done()
WalkSendOnly ==
    /\ FALSE
    /\ UNCHANGED vars

\* walkFunc's select, case <-ctx.Done(): the walk ends with ctx.Err(), and
\* the deferred close(ch) runs
WalkCancelled ==
    /\ ~chClosed
    /\ widx <= Len(files)
    /\ Selected(files[widx])
    /\ cancelled
    /\ chClosed' = TRUE
    /\ TaskReturn(Walker, CanceledErr)
    /\ UNCHANGED <<cacheVars, workerVars, files, widx, sent, orchVars,
                   diskVars, Images0, okHashes, returned, calls>>
    /\ UNCHANGED <<trackVars, dimVars, fileVars, addCount>>

\* filepath.Walk hands walkFunc an error (an unreadable directory): the
\* walk ends with it
WalkError ==
    /\ ~chClosed
    /\ chClosed' = TRUE
    /\ TaskReturn(Walker, IoErr("walk", "src"))
    /\ UNCHANGED <<cacheVars, workerVars, files, widx, sent, orchVars,
                   diskVars, Images0, okHashes, returned, calls>>
    /\ UNCHANGED <<trackVars, dimVars, fileVars, addCount>>

\* filepath.Walk has visited the whole tree: the walker returns nil
WalkFinish ==
    /\ ~chClosed
    /\ widx > Len(files)
    /\ chClosed' = TRUE
    /\ TaskReturn(Walker, NoErr)
    /\ UNCHANGED <<cacheVars, workerVars, files, widx, sent, orchVars,
                   diskVars, Images0, okHashes, returned, calls>>
    /\ UNCHANGED <<trackVars, dimVars, fileVars, addCount>>

\* "for p := range ch" on the closed channel: the worker returns nil
RecvClosed(w) ==
    /\ pc[w] = "recv"
    /\ chClosed
    /\ pc' = [pc EXCEPT ![w] = "exit"]
    /\ TaskReturn(w, NoErr)
    /\ UNCHANGED <<cacheVars, cur, err, walkVars, orchVars, diskVars,
                   Images0, okHashes, returned, calls>>
    /\ UNCHANGED <<trackVars, dimVars, fileVars, addCount>>

\* imagePhash(p) or fileHash(p)
Fingerprint(w) ==
    /\ pc[w] = "hash"
    /\ \/ /\ pc' = [pc EXCEPT ![w] = "thumb"]
          /\ UNCHANGED <<groupVars, finished>>
       \/ WorkerFails(w, IoErr("hash", cur[w].Source))
    /\ UNCHANGED <<cacheVars, cur, err, walkVars, orchVars, diskVars,
                   Images0, okHashes, returned, calls>>
    /\ UNCHANGED <<handed, runNo, dimVars, fileVars, addCount>>

\* createThumbnail(tr, thumbnailFile, p): an existing file is success; a
\* failed creation removes the file
CreateThumbnail(w) ==
    /\ pc[w] = "thumb"
    /\ \/ /\ thumbs' = thumbs \cup {cur[w].Hash}
          /\ pc' = [pc EXCEPT ![w] = "link"]
          /\ UNCHANGED <<groupVars, finished>>
       \/ /\ cur[w].Hash \notin thumbs
          /\ UNCHANGED thumbs
          /\ WorkerFails(w, IoErr("thumbnail", cur[w].Source))
    /\ UNCHANGED <<cacheVars, cur, err, walkVars, orchVars, cacheArg,
                   cacheFile, cacheFile0, tmpFile, html, origs,
                   Images0, okHashes, returned, calls>>
    /\ UNCHANGED <<handed, runNo, dimVars, fileVars, addCount>>

\* linkOrCopy(fullsizeImage, p): an existing file is success
LinkOrCopy(w) ==
    /\ pc[w] = "link"
    /\ \/ /\ origs' = origs \cup {cur[w].Hash}
          /\ pc' = [pc EXCEPT ![w] = "meta"]
          /\ UNCHANGED <<groupVars, finished>>
       \/ /\ cur[w].Hash \notin origs
          /\ UNCHANGED origs
          /\ WorkerFails(w, IoErr("copy", cur[w].Source))
    /\ UNCHANGED <<cacheVars, cur, err, walkVars, orchVars, cacheArg,
                   cacheFile, cacheFile0, tmpFile, html, thumbs,
                   Images0, okHashes, returned, calls>>
    /\ UNCHANGED <<handed, runNo, dimVars, fileVars, addCount>>

\* isPortrait(thumbnailFile) and imageTime(p)
ReadMeta(w) ==
    /\ pc[w] = "meta"
    /\ \/ /\ pc' = [pc EXCEPT ![w] = "add"]
          /\ UNCHANGED <<groupVars, finished>>
       \/ WorkerFails(w, IoErr("meta", cur[w].Source))
    /\ UNCHANGED <<cacheVars, cur, err, walkVars, orchVars, diskVars,
                   Images0, okHashes, returned, calls>>
    /\ UNCHANGED <<handed, runNo, dimVars, fileVars, addCount>>

\* a worker that returns add's error as it is
WrapAddErrBare(p, e) == e

\* fmt.Errorf("adding %q: %w", p, err)
WrapAddErr(p, e) == [kind |-> "adding", path |-> p, cause |-> e]

\* after page.add: its error, wrapped, ends the worker; nil loops to the
\* next receive
AfterAdd(w) ==
    /\ pc[w] = "added"
    /\ \/ /\ err[w] = NoErr
          /\ pc' = [pc EXCEPT ![w] = "recv"]
          /\ cur' = [cur EXCEPT ![w] = NoDetails]
          /\ finished' = finished + 1
          /\ UNCHANGED groupVars
       \/ /\ err[w] # NoErr
          /\ WorkerFails(w, WrapAddErr(cur[w].Source, err[w]))
          /\ UNCHANGED cur
    /\ UNCHANGED <<cacheVars, err, walkVars, orchVars, diskVars,
                   Images0, okHashes, returned, calls>>
    /\ UNCHANGED <<handed, runNo, dimVars, fileVars, addCount>>

\* a run that goes on when group.Wait() returned an error
WaitReturnIgnoringError ==
    /\ opc = "wait"
    /\ taskDone = Tasks
    /\ opc' = "check"
    /\ UNCHANGED <<cacheVars, workerVars, walkVars, groupVars, runErr,
                   diskVars, Images0, okHashes, returned, calls>>
    /\ UNCHANGED <<trackVars, dimVars, fileVars, addCount>>

\* a run that does not wait for its goroutines before it goes on
WaitReturnEarly ==
    /\ opc = "wait"
    /\ IF gerr # NoErr
       THEN opc' = "exit" /\ runErr' = gerr
       ELSE opc' = "check" /\ UNCHANGED runErr
    /\ UNCHANGED <<cacheVars, workerVars, walkVars, groupVars, diskVars,
                   Images0, okHashes, returned, calls>>
    /\ UNCHANGED <<trackVars, dimVars, fileVars, addCount>>

\* if err := group.Wait(); err != nil { return err }
WaitReturn ==
    /\ opc = "wait"
    /\ taskDone = Tasks
    /\ IF gerr # NoErr
       THEN opc' = "exit" /\ runErr' = gerr
       ELSE opc' = "check" /\ UNCHANGED runErr
    /\ UNCHANGED <<cacheVars, workerVars, walkVars, groupVars, diskVars,
                   Images0, okHashes, returned, calls>>
    /\ UNCHANGED <<trackVars, dimVars, fileVars, addCount>>

\* if len(page.Images) == 0 { return errors.New("no images found") }
CheckEmpty ==
    /\ opc = "check"
    /\ IF Len(Images) = 0
       THEN opc' = "exit" /\ runErr' = EmptyErr
       ELSE opc' = "sort" /\ UNCHANGED runErr
    /\ UNCHANGED <<cacheVars, workerVars, walkVars, groupVars, diskVars,
                   Images0, okHashes, returned, calls>>
    /\ UNCHANGED <<trackVars, dimVars, fileVars, addCount>>

\* what sort.Slice by Time.After can leave: the records, newest first, the
\* order of records of equal time not determined
SortByTimeResults(images) ==
    {s \in {[i \in 1..Len(images) |-> images[f[i]]] :
               f \in Permutations(1..Len(images))} : SortedByTimeDesc(s)}

\* page.sortByTime()
SortByTime ==
    /\ opc = "sort"
    /\ Images' \in SortByTimeResults(Images)
    /\ opc' = "render"
    /\ UNCHANGED <<UsePhash, dupsNil, dups, n, mu, once, workerVars, walkVars,
                   groupVars, runErr, diskVars, Images0, okHashes, returned,
                   calls>>
    /\ UNCHANGED <<trackVars, dimVars, fileVars, addCount>>

\* a run that saves the snapshot before the page is rendered and written
RenderAfterSave ==
    /\ opc = "render"
    /\ cacheFile' = IF cacheArg THEN SnapshotOf(UsePhash, Images) ELSE cacheFile
    /\ \/ opc' = "write" /\ UNCHANGED runErr
       \/ opc' = "exit" /\ runErr' = IoErr("render", "template")
    /\ UNCHANGED <<cacheVars, workerVars, walkVars, groupVars, cacheArg,
                   cacheFile0, tmpFile, html, thumbs, origs,
                   Images0, okHashes, returned, calls>>
    /\ UNCHANGED <<trackVars, dimVars, fileVars, addCount>>

\* gallery.Execute(buf, page)
Render ==
    /\ opc = "render"
    /\ \/ opc' = "write" /\ UNCHANGED runErr
       \/ opc' = "exit" /\ runErr' = IoErr("render", "template")
    /\ UNCHANGED <<cacheVars, workerVars, walkVars, groupVars, diskVars,
                   Images0, okHashes, returned, calls>>
    /\ UNCHANGED <<trackVars, dimVars, fileVars, addCount>>

\* ioutil.WriteFile(args.HTML, ...), then saveCache when args.Cache is set
WriteHTML ==
    /\ opc = "write"
    /\ \/ /\ html' = "written"
          /\ IF cacheArg
             THEN opc' = "tempfile" /\ UNCHANGED runErr
             ELSE opc' = "exit" /\ runErr' = NoErr
       \/ /\ html' \in {html, "partial"}
          /\ opc' = "exit"
          /\ runErr' = IoErr("write", "html")
    /\ UNCHANGED <<cacheVars, workerVars, walkVars, groupVars, cacheArg,
                   cacheFile, cacheFile0, tmpFile, thumbs, origs,
                   Images0, okHashes, returned, calls>>
    /\ UNCHANGED <<trackVars, dimVars, fileVars, addCount>>

\* saveCache: ioutil.TempFile in the directory of the snapshot
SaveTempFile ==
    /\ opc = "tempfile"
    /\ \/ tmpFile' = "empty" /\ opc' = "encode" /\ UNCHANGED runErr
       \/ /\ UNCHANGED tmpFile
          /\ opc' = "exit"
          /\ runErr' = IoErr("tempfile", "cache")
    /\ UNCHANGED <<cacheVars, workerVars, walkVars, groupVars, cacheArg,
                   cacheFile, cacheFile0, html, thumbs, origs,
                   Images0, okHashes, returned, calls>>
    /\ UNCHANGED <<trackVars, dimVars, fileVars, addCount>>

\* saveCache: enc.Encode(cache); on failure the deferred os.Remove runs
SaveEncode ==
    /\ opc = "encode"
    /\ \/ tmpFile' = "full" /\ opc' = "close" /\ UNCHANGED runErr
       \/ /\ tmpFile' = "none"
          /\ opc' = "exit"
          /\ runErr' = IoErr("encode", "cache")
    /\ UNCHANGED <<cacheVars, workerVars, walkVars, groupVars, cacheArg,
                   cacheFile, cacheFile0, html, thumbs, origs,
                   Images0, okHashes, returned, calls>>
    /\ UNCHANGED <<trackVars, dimVars, fileVars, addCount>>

\* saveCache: tf.Close(); on failure the deferred os.Remove runs
SaveClose ==
    /\ opc = "close"
    /\ \/ opc' = "rename" /\ UNCHANGED <<tmpFile, runErr>>
       \/ /\ tmpFile' = "none"
          /\ opc' = "exit"
          /\ runErr' = IoErr("close", "cache")
    /\ UNCHANGED <<cacheVars, workerVars, walkVars, groupVars, cacheArg,
                   cacheFile, cacheFile0, html, thumbs, origs,
                   Images0, okHashes, returned, calls>>
    /\ UNCHANGED <<trackVars, dimVars, fileVars, addCount>>

\* saveCache: defuse = true; return os.Rename(tf.Name(), name)
SaveRename ==
    /\ opc = "rename"
    /\ \/ /\ cacheFile' = SnapshotOf(UsePhash, Images)
          /\ tmpFile' = "none"
          /\ opc' = "exit"
          /\ runErr' = NoErr
       \/ /\ UNCHANGED <<cacheFile, tmpFile>>
          /\ opc' = "exit"
          /\ runErr' = IoErr("rename", "cache")
    /\ UNCHANGED <<cacheVars, workerVars, walkVars, groupVars, cacheArg,
                   cacheFile0, html, thumbs, origs,
                   Images0, okHashes, returned, calls>>
    /\ UNCHANGED <<trackVars, dimVars, fileVars, addCount>>

\* the steps the goroutines of run take by themselves
Steps ==
    \/ \E w \in Workers :
        \/ Handoff(w)
        \/ RecvClosed(w)
        \/ Fingerprint(w)
        \/ CreateThumbnail(w)
        \/ LinkOrCopy(w)
        \/ ReadMeta(w)
        \/ OnceBegin(w)
        \/ OnceSort(w)
        \/ OncePass(w)
        \/ Lock(w)
        \/ AddBody(w)
        \/ AfterAdd(w)
    \/ WalkCancelled
    \/ WalkFinish
    \/ WaitReturn
    \/ CheckEmpty
    \/ SortByTime
    \/ Render
    \/ WriteHTML
    \/ SaveTempFile
    \/ SaveEncode
    \/ SaveClose
    \/ SaveRename

\* these steps, or the file system fails the walk
Next ==
    \/ Steps
    \/ WalkError

Spec == Init /\ [][Next]_vars

\* run under fair scheduling: the Go scheduler runs a goroutine that can
\* take a step, so the program does not stand still while one of its own
\* steps is possible (a failure of the walk is never owed)
FairSpec == Init /\ [][Next]_vars /\ WF_vars(Steps)

(* ------------------------- run, and run again ------------------------- *)

\* the program is started again with the same arguments over the unchanged
\* tree, after a run that returned nil and saved its snapshot: loadCache
\* reads the snapshot (which brings its UsePhash), the cache's unexported
\* fields and the pipeline are new, the files on disk are as the first run
\* left them
Rerun ==
    /\ runNo = 1
    /\ FilesIdle
    /\ opc = "exit"
    /\ runErr = NoErr
    /\ cacheArg
    /\ cacheFile.exists
    /\ runNo' = 2
    /\ UsePhash' = cacheFile.UsePhash
    /\ Images' = LoadImages(cacheFile)
    /\ Images0' = Images'
    /\ cacheFile0' = cacheFile
    /\ dupsNil' = TRUE
    /\ dups' = [x \in {} |-> ""]
    /\ n' = 0
    /\ mu' = 0
    /\ once' = "new"
    /\ pc' = [w \in Workers |-> "recv"]
    /\ cur' = [w \in Workers |-> NoDetails]
    /\ err' = [w \in Workers |-> NoErr]
    /\ widx' = 1
    /\ sent' = 0
    /\ chClosed' = FALSE
    /\ gerr' = NoErr
    /\ cancelled' = FALSE
    /\ taskDone' = {}
    /\ taskErr' = [t \in Tasks |-> NoErr]
    /\ failOrder' = <<>>
    /\ opc' = "wait"
    /\ okHashes' = {}
    /\ returned' = FALSE
    /\ handed' = <<>>
    /\ finished' = 0
    /\ UNCHANGED <<files, runErr, cacheArg, cacheFile, tmpFile, html, thumbs,
                   origs, calls, dimVars, fileVars>>
    /\ addCount' = 0

\* run with a snapshot file argument
InitRerun ==
    /\ Init
    /\ cacheArg

NextRerun ==
    \/ Next
    \/ Rerun

SpecRerun == InitRerun /\ [][NextRerun]_vars

(* ------------------- run over a tree of mixed entries ------------------ *)

\* walkFunc returns filepath.SkipDir for an output directory: Walk goes on
\* with the first entry that is not under it
RECURSIVE AfterDir(_, _, _)
AfterDir(fs, dir, i) ==
    IF i <= Len(fs) /\ fs[i].under = dir THEN AfterDir(fs, dir, i + 1) ELSE i

WalkSkipDir ==
    /\ ~chClosed
    /\ widx <= Len(files)
    /\ IsOutputDir(files[widx])
    /\ widx' = AfterDir(files, files[widx].path, widx + 1)
    /\ UNCHANGED <<cacheVars, workerVars, files, sent, chClosed, groupVars,
                   orchVars, diskVars, Images0, okHashes, returned, calls>>
    /\ UNCHANGED <<trackVars, dimVars, fileVars, addCount>>

\* walkFunc returns nil for an entry that is not a regular file or has
\* another extension: Walk goes on (into it, when it is a directory)
WalkSkip ==
    /\ ~chClosed
    /\ widx <= Len(files)
    /\ ~IsOutputDir(files[widx])
    /\ ~Selected(files[widx])
    /\ widx' = widx + 1
    /\ UNCHANGED <<cacheVars, workerVars, files, sent, chClosed, groupVars,
                   orchVars, diskVars, Images0, okHashes, returned, calls>>
    /\ UNCHANGED <<trackVars, dimVars, fileVars, addCount>>

\* a source tree in the order filepath.Walk visits it: three images with
\* differently spelled extensions and fingerprints far from each other, a
\* png file, a directory named like an image, and the thumbnail directory
\* with a thumbnail an earlier run left in it
FullTree ==
    << ImageFile("a.jpg", 100),
       ImageFile("b.JPG", 267),
       ImageFile("c.Jpeg", 658),
       Entry("d.png", TRUE, "", 0, 1),
       Entry("e.jpg", FALSE, "", 0, 1),
       Entry(ThumbsDir, FALSE, "", 0, 1),
       Entry("thumbs/64.jpg", TRUE, ThumbsDir, 100, 1) >>

\* the entries of fs whose index is in keep, in order
RECURSIVE Pick(_, _, _)
Pick(fs, keep, i) ==
    IF i > Len(fs) THEN <<>>
    ELSE (IF i \in keep THEN <<fs[i]>> ELSE <<>>) \o Pick(fs, keep, i + 1)

\* the trees made of some of these entries (a file under a directory only
\* with the directory)
MixedTrees ==
    {Pick(FullTree, keep, 1) :
        keep \in {k \in SUBSET (1..Len(FullTree)) :
                    \A i \in k : FullTree[i].under # "" =>
                        \E j \in k : FullTree[j].path = FullTree[i].under}}

\* run from a fresh cache over such a tree
InitTree ==
    /\ UsePhash \in BOOLEAN
    /\ cacheArg \in BOOLEAN
    /\ cacheFile0 = Absent
    /\ cacheFile = cacheFile0
    /\ Images = <<>>
    /\ Images0 = Images
    /\ dupsNil = TRUE
    /\ dups = [x \in {} |-> ""]
    /\ n = 0
    /\ mu = 0
    /\ once = "new"
    /\ pc = [w \in Workers |-> "recv"]
    /\ cur = [w \in Workers |-> NoDetails]
    /\ err = [w \in Workers |-> NoErr]
    /\ files \in MixedTrees
    /\ widx = 1
    /\ sent = 0
    /\ chClosed = FALSE
    /\ gerr = NoErr
    /\ cancelled = FALSE
    /\ taskDone = {}
    /\ taskErr = [t \in Tasks |-> NoErr]
    /\ failOrder = <<>>
    /\ opc = "wait"
    /\ runErr = NoErr
    /\ tmpFile = "none"
    /\ html = "absent"
    /\ thumbs = {f.hash : f \in {files[i] : i \in {j \in 1..Len(files) :
                                     files[j].under = ThumbsDir}}}
    /\ origs = {}
    /\ okHashes = {}
    /\ returned = FALSE
    /\ calls = 0
    /\ addCount = 0
    /\ handed = <<>>
    /\ finished = 0
    /\ runNo = 1
    /\ FilesIdle
    /\ DimsIdle

NextTree ==
    \/ Next
    \/ WalkSkipDir
    \/ WalkSkip

SpecTree == InitTree /\ [][NextTree]_vars

(* ----------------- newTransform and newDimensions, called -------------- *)

\* a caller holds the arguments of newTransform and an image's dimensions
InitDims ==
    /\ UsePhash = FALSE
    /\ Images = <<>>
    /\ Images0 = <<>>
    /\ dupsNil = TRUE
    /\ dups = [x \in {} |-> ""]
    /\ n = 0
    /\ mu = 0
    /\ once = "new"
    /\ pc = [w \in Workers |-> "idle"]
    /\ cur = [w \in Workers |-> NoDetails]
    /\ err = [w \in Workers |-> NoErr]
    /\ okHashes = {}
    /\ returned = FALSE
    /\ calls = 0
    /\ addCount = 0
    /\ PipelineIdle
    /\ targs \in {Transform(a, b, c, d) : a, b, c, d \in 0..MaxField}
    /\ orig \in {Size(w, h) : w, h \in 0..MaxDim}
    /\ tr = Transform(0, 0, 0, 0)
    /\ terr = NoErr
    /\ dims = [w |-> 0, h |-> 0, err |-> NoErr]
    /\ dpc = "args"

\* tr, err := newTransform(...)
NewTransformCall ==
    /\ dpc = "args"
    /\ tr' = NewTransform(targs).tr
    /\ terr' = NewTransform(targs).err
    /\ dpc' = "made"
    /\ UNCHANGED <<targs, orig, dims>>
    /\ UNCHANGED <<cacheVars, workerVars, walkVars, groupVars, orchVars,
                   diskVars, trackVars, fileVars, Images0, okHashes, returned, calls,
                   addCount>>

\* w, h, err := tr.newDimensions(origWidth, origHeight)
NewDimensionsCall ==
    /\ dpc = "made"
    /\ dims' = NewDimensions(tr, orig.W, orig.H)
    /\ dpc' = "done"
    /\ UNCHANGED <<targs, tr, terr, orig>>
    /\ UNCHANGED <<cacheVars, workerVars, walkVars, groupVars, orchVars,
                   diskVars, trackVars, fileVars, Images0, okHashes, returned, calls,
                   addCount>>

NextDims ==
    \/ NewTransformCall
    \/ NewDimensionsCall

SpecDims == InitDims /\ [][NextDims]_vars

(* ---------------- run, with the file operations in steps --------------- *)

\* the error of an exclusive create of a file that exists: a *PathError
\* for which errors.Is(err, os.ErrExist) holds
ExistErr(path) == [kind |-> "exist", path |-> path]

\* createThumbnail: os.OpenFile(dst, O_WRONLY|O_CREATE|O_EXCL). An existing
\* file makes it return nil; otherwise the file exists, empty, from here on
CreateThumbnailOpen(w) ==
    /\ pc[w] = "thumb"
    /\ \/ /\ cur[w].Hash \in thumbs
          /\ pc' = [pc EXCEPT ![w] = "link"]
          /\ UNCHANGED <<thumbs, thumbsPartial, groupVars, finished>>
       \/ /\ cur[w].Hash \notin thumbs
          /\ thumbs' = thumbs \cup {cur[w].Hash}
          /\ thumbsPartial' = thumbsPartial \cup {cur[w].Hash}
          /\ pc' = [pc EXCEPT ![w] = "encode"]
          /\ UNCHANGED <<groupVars, finished>>
       \/ /\ cur[w].Hash \notin thumbs
          /\ UNCHANGED <<thumbs, thumbsPartial>>
          /\ WorkerFails(w, IoErr("thumbnail", cur[w].Source))
    /\ UNCHANGED <<cacheVars, cur, err, walkVars, orchVars, cacheArg,
                   cacheFile, cacheFile0, tmpFile, html, origs,
                   Images0, okHashes, returned, calls>>
    /\ UNCHANGED <<handed, runNo, dimVars, origsPartial, addCount>>

\* createThumbnail after the create: the source is opened and decoded, the
\* image resized, encoded into the file, the file closed. A failure of any
\* of them runs the deferred os.Remove(dst)
CreateThumbnailEncode(w) ==
    /\ pc[w] = "encode"
    /\ \/ /\ thumbsPartial' = thumbsPartial \ {cur[w].Hash}
          /\ pc' = [pc EXCEPT ![w] = "link"]
          /\ UNCHANGED <<thumbs, groupVars, finished>>
       \/ /\ thumbs' = thumbs \ {cur[w].Hash}
          /\ thumbsPartial' = thumbsPartial \ {cur[w].Hash}
          /\ WorkerFails(w, IoErr("thumbnail", cur[w].Source))
    /\ UNCHANGED <<cacheVars, cur, err, walkVars, orchVars, cacheArg,
                   cacheFile, cacheFile0, tmpFile, html, origs,
                   Images0, okHashes, returned, calls>>
    /\ UNCHANGED <<handed, runNo, dimVars, origsPartial, addCount>>

\* linkOrCopy: if _, err := os.Stat(dst); err == nil { return nil }
LinkOrCopyStat(w) ==
    /\ pc[w] = "link"
    /\ pc' = [pc EXCEPT ![w] =
                 IF cur[w].Hash \in origs THEN "meta" ELSE "oslink"]
    /\ UNCHANGED <<groupVars, finished>>
    /\ UNCHANGED <<cacheVars, cur, err, walkVars, orchVars, cacheArg,
                   cacheFile, cacheFile0, tmpFile, html, thumbs, origs,
                   Images0, okHashes, returned, calls>>
    /\ UNCHANGED <<handed, runNo, dimVars, fileVars, addCount>>

\* linkOrCopy: if err := os.Link(src, dst); err == nil { return nil }. The
\* link fails when dst exists, and may fail otherwise (another device)
LinkOrCopyLink(w) ==
    /\ pc[w] = "oslink"
    /\ \/ /\ cur[w].Hash \notin origs
          /\ origs' = origs \cup {cur[w].Hash}
          /\ pc' = [pc EXCEPT ![w] = "meta"]
       \/ /\ UNCHANGED origs
          /\ pc' = [pc EXCEPT ![w] = "create"]
    /\ UNCHANGED <<origsPartial, groupVars, finished>>
    /\ UNCHANGED <<cacheVars, cur, err, walkVars, orchVars, cacheArg,
                   cacheFile, cacheFile0, tmpFile, html, thumbs,
                   Images0, okHashes, returned, calls>>
    /\ UNCHANGED <<handed, runNo, dimVars, thumbsPartial, addCount>>

\* linkOrCopy: os.Open(src), then os.OpenFile(dst, O_WRONLY|O_CREATE|
\* O_EXCL): every error is returned, the one of an existing dst included
LinkOrCopyCreate(w) ==
    /\ pc[w] = "create"
    /\ \/ /\ UNCHANGED <<origs, origsPartial>>
          /\ WorkerFails(w, IoErr("copy", cur[w].Source))
       \/ /\ cur[w].Hash \in origs
          /\ UNCHANGED <<origs, origsPartial>>
          /\ WorkerFails(w, ExistErr(cur[w].Original))
       \/ /\ cur[w].Hash \notin origs
          /\ origs' = origs \cup {cur[w].Hash}
          /\ origsPartial' = origsPartial \cup {cur[w].Hash}
          /\ pc' = [pc EXCEPT ![w] = "copy"]
          /\ UNCHANGED <<groupVars, finished>>
    /\ UNCHANGED <<cacheVars, cur, err, walkVars, orchVars, cacheArg,
                   cacheFile, cacheFile0, tmpFile, html, thumbs,
                   Images0, okHashes, returned, calls>>
    /\ UNCHANGED <<handed, runNo, dimVars, thumbsPartial, addCount>>

\* linkOrCopy: io.Copy(f2, f), whose failure removes the file, and then
\* return f2.Close(), whose failure leaves it
LinkOrCopyCopy(w) ==
    /\ pc[w] = "copy"
    /\ \/ /\ origsPartial' = origsPartial \ {cur[w].Hash}
          /\ pc' = [pc EXCEPT ![w] = "meta"]
          /\ UNCHANGED <<origs, groupVars, finished>>
       \/ /\ origs' = origs \ {cur[w].Hash}
          /\ origsPartial' = origsPartial \ {cur[w].Hash}
          /\ WorkerFails(w, IoErr("copy", cur[w].Source))
       \/ /\ UNCHANGED <<origs, origsPartial>>
          /\ WorkerFails(w, IoErr("copy", cur[w].Source))
    /\ UNCHANGED <<cacheVars, cur, err, walkVars, orchVars, cacheArg,
                   cacheFile, cacheFile0, tmpFile, html, thumbs,
                   Images0, okHashes, returned, calls>>
    /\ UNCHANGED <<handed, runNo, dimVars, thumbsPartial, addCount>>

\* isPortrait(thumbnailFile): os.Open fails when the file is missing;
\* jpeg.DecodeConfig reads what the file holds at that moment, so on a file
\* that is being written it fails or succeeds; imageTime(p) follows
IsPortrait(w) ==
    /\ pc[w] = "meta"
    /\ \/ /\ cur[w].Hash \in thumbs
          /\ pc' = [pc EXCEPT ![w] = "add"]
          /\ UNCHANGED <<groupVars, finished>>
       \/ WorkerFails(w, IoErr("meta", cur[w].Source))
    /\ UNCHANGED <<cacheVars, cur, err, walkVars, orchVars, cacheArg,
                   cacheFile, cacheFile0, tmpFile, html, thumbs, origs,
                   Images0, okHashes, returned, calls>>
    /\ UNCHANGED <<handed, runNo, dimVars, fileVars, addCount>>

\* the steps of run's goroutines, the file operations taken one system
\* call (or one run of writes) at a time
StepsFiles ==
    \/ \E w \in Workers :
        \/ Handoff(w)
        \/ RecvClosed(w)
        \/ Fingerprint(w)
        \/ CreateThumbnailOpen(w)
        \/ CreateThumbnailEncode(w)
        \/ LinkOrCopyStat(w)
        \/ LinkOrCopyLink(w)
        \/ LinkOrCopyCreate(w)
        \/ LinkOrCopyCopy(w)
        \/ IsPortrait(w)
        \/ OnceBegin(w)
        \/ OnceSort(w)
        \/ OncePass(w)
        \/ Lock(w)
        \/ AddBody(w)
        \/ AfterAdd(w)
    \/ WalkCancelled
    \/ WalkFinish
    \/ WaitReturn
    \/ CheckEmpty
    \/ SortByTime
    \/ Render
    \/ WriteHTML
    \/ SaveTempFile
    \/ SaveEncode
    \/ SaveClose
    \/ SaveRename

NextFiles ==
    \/ StepsFiles
    \/ WalkError

SpecFiles == Init /\ [][NextFiles]_vars

(* ------------------------ claims about the cache ----------------------- *)

NoHashTwice(images) ==
    \A i, j \in 1..Len(images) : i # j => images[i].Hash # images[j].Hash

\* worker w leaves the critical section of add in this step
BodyStep(w) == pc[w] = "body" /\ pc'[w] = "added"

\* the fingerprint-to-source registrations add works from: the map, or what
\* its first call will build from Images while dups is still nil
Registered == IF dupsNil THEN BuildDups(Images) ELSE dups

\* C1, as stated: in exact mode, once adds have succeeded, no two records
\* of Images share a fingerprint and len(Images) is the number of distinct
\* fingerprints for which add returned success.
C1_Original ==
    (~UsePhash /\ okHashes # {}) =>
        /\ NoHashTwice(Images)
        /\ Len(Images) = Cardinality(okHashes)

\* C1, amended: in exact mode no two records of Images share a fingerprint,
\* and len(Images) is the number of distinct fingerprints that were loaded
\* from the snapshot or for which add returned success.
C1_UniqueAndCounted ==
    ~UsePhash =>
        /\ NoHashTwice(Images)
        /\ Len(Images) = Cardinality(HashSet(Images0) \cup okHashes)
        /\ Len(Images) = Len(Images0) + n

\* C1's case: over a loaded snapshot, one record was added and a worker has
\* just been refused a duplicate
C1_Witness ==
    /\ ~UsePhash
    /\ Images0 # <<>>
    /\ n >= 1
    /\ \E w \in Workers : pc[w] = "added" /\ err[w].kind = "dupExact"

\* C2: in exact mode, add of a record whose (fingerprint, source) pair is
\* registered returns nil and changes neither Images nor the registrations
\* nor n (nor the map itself, once it is built); and every add that returns
\* nil leaves the record's pair registered, so that a second add of it is
\* that no-op.
C2_ResubmitIsNoOp ==
    [][\A w \in Workers :
        (BodyStep(w) /\ ~UsePhash) =>
            /\ (/\ cur[w].Hash \in DOMAIN Registered
                /\ Registered[cur[w].Hash] = cur[w].Source)
               => /\ err'[w] = NoErr
                  /\ Images' = Images
                  /\ n' = n
                  /\ Registered' = Registered
                  /\ ~dupsNil => dups' = dups
            /\ err'[w] = NoErr
               => /\ ~dupsNil'
                  /\ cur[w].Hash \in DOMAIN dups'
                  /\ dups'[cur[w].Hash] = cur[w].Source]_vars

\* C2's case: a record was added by this run and a worker's add of a record
\* with a registered pair has returned nil although the record it handed in
\* (another capture time) is not in Images
C2_Witness ==
    /\ ~UsePhash
    /\ n >= 1
    /\ \E w \in Workers :
        /\ pc[w] = "added"
        /\ err[w] = NoErr
        /\ \A i \in 1..Len(Images) : Images[i] # cur[w]

\* C4: in perceptual mode, once an add call has returned, Images is sorted
\* by non-decreasing fingerprint.
C4_SortedByHash ==
    (UsePhash /\ returned) => SortedByHash(Images)

\* C4's case: the snapshot was loaded out of fingerprint order, and a record
\* was inserted before the last element
C4_Witness ==
    /\ UsePhash
    /\ returned
    /\ ~SortedByHash(Images0)
    /\ n >= 1
    /\ Len(Images) = 3
    /\ Images[3] \in {Images0[1], Images0[2]}

\* C5, as stated: in perceptual mode, from an empty cache, any two distinct
\* records of Images are farther apart than minDiff.
C5_Original ==
    (UsePhash /\ Images0 = <<>>) =>
        \A i, j \in 1..Len(Images) :
            i # j => Distance(Images[i].Hash, Images[j].Hash) > minDiff

\* C5, amended: in perceptual mode, from an empty cache, any two records
\* that are neighbours in Images (consecutive in fingerprint order) are
\* farther apart than minDiff.
C5_NeighboursApart ==
    (UsePhash /\ Images0 = <<>>) =>
        \A i \in 1..(Len(Images) - 1) :
            Distance(Images[i].Hash, Images[i + 1].Hash) > minDiff

\* C5's case: three records were accepted from an empty cache, the first
\* and the last of them within minDiff of each other
C5_Witness ==
    /\ UsePhash
    /\ Images0 = <<>>
    /\ Len(Images) = 3
    /\ Distance(Images[1].Hash, Images[3].Hash) <= minDiff

\* the documented scenario up to its last step: from an empty cache
\* fingerprint 100 is accepted, and 101 is then refused and leaves [100]
ScenarioFirstSteps(w) ==
    /\ (Images = <<>> /\ cur[w].Hash = 100)
        => err'[w] = NoErr /\ HashesOf(Images') = <<100>>
    /\ (HashesOf(Images) = <<100>> /\ cur[w].Hash = 101)
        => /\ err'[w].kind = "dupNear"
           /\ err'[w].diff = 1
           /\ Images' = Images

\* C6, as stated: in perceptual mode with threshold 5 and an empty cache,
\* 100 is accepted, 101 is refused and leaves [100], and 500 is then
\* accepted and gives [100, 500].
C6_Original ==
    [][\A w \in Workers :
        (BodyStep(w) /\ UsePhash /\ Images0 = <<>>) =>
            /\ ScenarioFirstSteps(w)
            /\ (HashesOf(Images) = <<100>> /\ cur[w].Hash = 500)
                => err'[w] = NoErr /\ HashesOf(Images') = <<100, 500>>]_vars

\* C6, amended: 100 is accepted, 101 is refused and leaves [100]; 500,
\* which is at distance 3 from 100, is then refused as a duplicate too and
\* leaves [100]; 267, at distance 7 from 100, is accepted and gives
\* [100, 267].
C6_Scenario ==
    [][\A w \in Workers :
        (BodyStep(w) /\ UsePhash /\ Images0 = <<>>) =>
            /\ ScenarioFirstSteps(w)
            /\ (HashesOf(Images) = <<100>> /\ cur[w].Hash = 500)
                => /\ err'[w].kind = "dupNear"
                   /\ err'[w].diff = 3
                   /\ Images' = Images
            /\ (HashesOf(Images) = <<100>> /\ cur[w].Hash = 267)
                => err'[w] = NoErr /\ HashesOf(Images') = <<100, 267>>]_vars

\* C6's case: the cache, empty at first, holds [100] after three calls, the
\* last of which handed in 500 and has returned
C6_Witness ==
    /\ UsePhash
    /\ Images0 = <<>>
    /\ HashesOf(Images) = <<100>>
    /\ calls = 3
    /\ \E w \in Workers :
        pc[w] = "added" /\ cur[w].Hash = 500 /\ err[w] # NoErr

\* C7: in perceptual mode, add of a record whose fingerprint is that of a
\* record of Images returns nil and changes nothing if and only if that
\* record has the same source path and the same capture time; in every
\* other such case it returns the same-phash duplicate error.
C7_EqualFingerprint ==
    [][\A w \in Workers :
        (BodyStep(w) /\ UsePhash /\ cur[w].Hash \in HashSet(Images)) =>
            LET i == CHOOSE k \in 1..Len(Images) : Images[k].Hash = cur[w].Hash
                same == /\ Images[i].Source = cur[w].Source
                        /\ Images[i].Time = cur[w].Time
            IN  /\ same => /\ err'[w] = NoErr
                           /\ Images' = Images
                           /\ n' = n
                /\ ~same => /\ err'[w].kind = "dupSame"
                            /\ err'[w].source = Images[i].Source
                            /\ Images' = Images
                            /\ n' = n]_vars

\* C7's case: a record with the fingerprint and the source path of a record
\* of Images, and another capture time, has been refused
C7_Witness ==
    /\ UsePhash
    /\ \E w \in Workers :
        /\ pc[w] = "added"
        /\ err[w].kind = "dupSame"
        /\ err[w].source = cur[w].Source

(* ------------------------- claims about run ---------------------------- *)

\* C3: in exact mode, add of a record whose fingerprint is registered under
\* another source path returns the duplicate error, which names the record
\* identifier and the registered source path, and changes nothing; the
\* worker returns it wrapped with the incoming path; and run returns that
\* error when this worker is the first task to fail.
C3_DuplicateNamesBoth ==
    [][/\ \A w \in Workers :
            /\ (/\ BodyStep(w)
                /\ ~UsePhash
                /\ cur[w].Hash \in DOMAIN Registered
                /\ Registered[cur[w].Hash] # cur[w].Source)
               => /\ err'[w].kind = "dupExact"
                  /\ err'[w].id = ID(cur[w].Hash)
                  /\ err'[w].prev = Registered[cur[w].Hash]
                  /\ Images' = Images
                  /\ n' = n
            /\ (pc[w] = "added" /\ pc'[w] # "added" /\ err[w].kind = "dupExact")
               => /\ pc'[w] = "exit"
                  /\ taskErr'[w].kind = "adding"
                  /\ taskErr'[w].path = cur[w].Source
                  /\ taskErr'[w].cause = err[w]
       /\ (/\ opc = "wait"
           /\ opc' # "wait"
           /\ failOrder # <<>>
           /\ taskErr[failOrder[1]].kind = "adding")
          => opc' = "exit" /\ runErr' = taskErr[failOrder[1]]]_vars

\* C3's case: run has returned the duplicate error of exact mode, which
\* names the identifier and two different source paths
C3_Witness ==
    /\ ~UsePhash
    /\ opc = "exit"
    /\ runErr.kind = "adding"
    /\ runErr.cause.kind = "dupExact"
    /\ runErr.cause.prev # runErr.path
    /\ runErr.cause.id = ID(100)

\* C8: if a worker or the walker has failed, run returns the error of the
\* task that failed first: not nil, not the walker's cancellation error,
\* not the error of a task that failed later.
C8_FirstErrorWins ==
    (opc = "exit" /\ failOrder # <<>>) =>
        /\ runErr = taskErr[failOrder[1]]
        /\ runErr # NoErr
        /\ runErr # CanceledErr
        /\ \A k \in 2..Len(failOrder) : runErr # taskErr[failOrder[k]]

\* C8's case: run has returned after both workers failed and the walker
\* returned the cancellation error
C8_Witness ==
    /\ opc = "exit"
    /\ Len(failOrder) >= 3
    /\ taskErr[Walker] = CanceledErr
    /\ failOrder[1] \in Workers

\* C9, as stated: once ctx is cancelled, no path is handed from the walker
\* to a worker.
C9_NoHandoffAfterCancel ==
    [][cancelled => sent' = sent]_vars

\* an error of saveCache
IsSaveErr(e) ==
    e.kind = "io" /\ e.op \in {"tempfile", "encode", "close", "rename"}

\* C10: the snapshot file differs from what it was at process start only
\* once run has returned nil; when run returns an error that arose before
\* saveCache was called, the file is what it was (or still absent) and no
\* temporary file exists.
C10_SnapshotOnlyOnSuccess ==
    /\ cacheFile # cacheFile0 => (opc = "exit" /\ runErr = NoErr)
    /\ (opc = "exit" /\ runErr # NoErr /\ ~IsSaveErr(runErr))
        => cacheFile = cacheFile0 /\ tmpFile = "none"

\* C10's case: over a loaded snapshot, a record was added and thumbnails
\* were made before a worker failed, and run has returned its error
C10_Witness ==
    /\ opc = "exit"
    /\ cacheArg
    /\ cacheFile0.exists
    /\ failOrder # <<>>
    /\ failOrder[1] \in Workers
    /\ runErr = taskErr[failOrder[1]]
    /\ n >= 1
    /\ thumbs # {}
    /\ cacheFile = cacheFile0

(* ------------------------ claims about the walk ------------------------ *)

\* the paths of the regular files of fs whose extension is .jpg or .jpeg in
\* any spelling of case
JpegPaths(fs) ==
    {fs[i].path : i \in {j \in 1..Len(fs) :
        fs[j].regular /\ Fold(Ext(fs[j].path)) \in {".jpg", ".jpeg"}}}

\* those of them that do not lie under an output directory
JpegPathsOutsideOutput(fs) ==
    {fs[i].path : i \in {j \in 1..Len(fs) :
        /\ fs[j].regular
        /\ Fold(Ext(fs[j].path)) \in {".jpg", ".jpeg"}
        /\ fs[j].under = ""}}

\* workers have received only paths of the set wanted, none twice; once
\* the walker has returned nil, every path of wanted; and once all tasks
\* have returned without error, from a fresh cache, Images holds one record
\* per path of wanted
SubmitsExactly(wanted) ==
    /\ \A i \in 1..Len(handed) : handed[i] \in wanted
    /\ \A i, j \in 1..Len(handed) : i # j => handed[i] # handed[j]
    /\ sent = Len(handed)
    /\ (Walker \in taskDone /\ taskErr[Walker] = NoErr)
        => {handed[i] : i \in 1..Len(handed)} = wanted
    /\ (taskDone = Tasks /\ gerr = NoErr /\ Images0 = <<>>)
        => Len(Images) = Cardinality(wanted) /\ n = Cardinality(wanted)

\* C11, as stated: the walker submits exactly the regular files under the
\* source root whose extension is .jpg or .jpeg case-insensitively, each
\* once, and an error-free run from a fresh cache over non-duplicate images
\* accepts as many records as there are such files.
C11_Original == SubmitsExactly(JpegPaths(files))

\* C11, amended: the same of the regular .jpg/.jpeg files that do not lie
\* under the thumbnail or the full-size directory, which the walk skips.
C11_SubmitsJpegOutsideOutput == SubmitsExactly(JpegPathsOutsideOutput(files))

\* C11's case: over three images (.jpg, .JPG, .Jpeg), a png file and the
\* thumbnail directory with a thumbnail in it, run has returned nil with
\* three records
C11_Witness ==
    /\ opc = "exit"
    /\ runErr = NoErr
    /\ Len(Images) = 3
    /\ handed = <<"a.jpg", "b.JPG", "c.Jpeg">>
    /\ \E i \in 1..Len(files) : files[i].path = "d.png"
    /\ \E i \in 1..Len(files) : files[i].under = ThumbsDir

(* --------------------- claims about the end of run --------------------- *)

\* C12, as stated: when the walk completed without error, no path was
\* submitted and no record was accepted, run returns the error "no images
\* found", whether the cache was fresh or loaded from a snapshot.
C12_EmptyWalkFails ==
    (opc = "exit" /\ gerr = NoErr /\ sent = 0 /\ n = 0) => runErr = EmptyErr

\* the walker and every worker have returned and ch is closed: none of
\* them is blocked sending to or receiving from the queue
Drained ==
    /\ taskDone = Tasks
    /\ chClosed
    /\ \A w \in Workers : pc[w] = "exit"

\* C13: under fair scheduling, for every tree and every pattern of
\* failures, the walker and all workers eventually have exited, run goes
\* past group.Wait only when they have, and run eventually returns.
C13_FullDrain ==
    /\ [](opc # "wait" => Drained)
    /\ <>Drained
    /\ <>(opc = "exit")

\* C13's case: a worker failed first while files were left to submit, the
\* walker returned the cancellation error, the other worker failed too,
\* and run has returned
C13_Witness ==
    /\ Drained
    /\ opc = "exit"
    /\ widx <= Len(files)
    /\ failOrder # <<>>
    /\ failOrder[1] \in Workers
    /\ taskErr[Walker] = CanceledErr
    /\ \A w \in Workers : taskErr[w] # NoErr

\* the records of a sequence, as a set
RecordSet(images) == {images[i] : i \in 1..Len(images)}

\* C14: in a second run with the snapshot a successful first run saved,
\* over the unchanged tree, in either mode: no add call returns an error,
\* no record is added (n = 0 and Images holds the loaded records), run
\* returns no error other than one of its file operations failing, and
\* when it returns nil the snapshot holds the same set of records as
\* before.
C14_RerunIsNoOp ==
    runNo = 2 =>
        /\ \A w \in Workers : err[w] = NoErr /\ taskErr[w].kind # "adding"
        /\ n = 0
        /\ RecordSet(Images) = RecordSet(Images0)
        /\ Len(Images) = Len(Images0)
        /\ opc = "exit" => (runErr = NoErr \/ runErr.kind = "io")
        /\ (opc = "exit" /\ runErr = NoErr)
            => /\ cacheFile.exists
               /\ cacheFile.UsePhash = cacheFile0.UsePhash
               /\ RecordSet(LoadImages(cacheFile)) = RecordSet(LoadImages(cacheFile0))

\* C14's case: the second run, in perceptual mode, over a tree of two
\* files, has handed both files to add and returned nil
C14_Witness ==
    /\ runNo = 2
    /\ UsePhash
    /\ opc = "exit"
    /\ runErr = NoErr
    /\ Len(handed) = 2
    /\ finished = 2
    /\ Len(Images) = 2
    /\ returned

(* ---------------------- claims about newDimensions --------------------- *)

\* newDimensions has returned for a policy with a maximum bound and an
\* image of non-zero dimensions
MaxCase ==
    /\ dpc = "done"
    /\ orig.W # 0
    /\ orig.H # 0
    /\ (tr.MaxWidth > 0 \/ tr.MaxHeight > 0)

\* the candidate box of a policy with a maximum bound: the bounds given,
\* a missing one taken from the other by the original aspect ratio
BoxW ==
    IF tr.MaxWidth > 0 THEN tr.MaxWidth
    ELSE (orig.W * tr.MaxHeight) \div orig.H

BoxH ==
    IF tr.MaxHeight > 0 THEN tr.MaxHeight
    ELSE (orig.H * tr.MaxWidth) \div orig.W

\* C15: under a policy with MaxWidth and/or MaxHeight set, for non-zero
\* original dimensions: an original that fits the candidate box is returned
\* unchanged, and in every case neither returned dimension exceeds the
\* original one.
C15_NoUpscaling ==
    MaxCase =>
        /\ dims.err = NoErr
        /\ (orig.W <= BoxW /\ orig.H <= BoxH) => dims.w = orig.W /\ dims.h = orig.H
        /\ dims.w <= orig.W
        /\ dims.h <= orig.H

\* C15's case: only MaxWidth = 4 is set and the original, 3 x 7, is
\* narrower than it: it is returned unchanged
C15_Witness ==
    /\ MaxCase
    /\ tr.MaxWidth = 4
    /\ tr.MaxHeight = 0
    /\ orig = Size(3, 7)
    /\ dims.w = 3
    /\ dims.h = 7

\* C16: when only Width or only Height is given, or only MaxWidth or only
\* MaxHeight and the original does not fit, the given dimension is
\* returned unchanged and the other one is floor(origDim * given /
\* origOtherDim): the original aspect ratio, short by less than one unit.
C16_OneDimensionGiven ==
    (dpc = "done" /\ orig.W # 0 /\ orig.H # 0) =>
        LET plain == tr.MaxWidth = 0 /\ tr.MaxHeight = 0
            fits == orig.W <= BoxW /\ orig.H <= BoxH
            givenW(g) ==
                /\ dims.err = NoErr
                /\ dims.w = g
                /\ dims.h = (orig.H * g) \div orig.W
                /\ dims.h * orig.W <= orig.H * g
                /\ orig.H * g < (dims.h + 1) * orig.W
            givenH(g) ==
                /\ dims.err = NoErr
                /\ dims.h = g
                /\ dims.w = (orig.W * g) \div orig.H
                /\ dims.w * orig.H <= orig.W * g
                /\ orig.W * g < (dims.w + 1) * orig.H
        IN  /\ (plain /\ tr.Width > 0 /\ tr.Height = 0) => givenW(tr.Width)
            /\ (plain /\ tr.Width = 0 /\ tr.Height > 0) => givenH(tr.Height)
            /\ (tr.MaxWidth > 0 /\ tr.MaxHeight = 0 /\ ~fits)
                => givenW(tr.MaxWidth)
            /\ (tr.MaxWidth = 0 /\ tr.MaxHeight > 0 /\ ~fits)
                => givenH(tr.MaxHeight)

\* C16's case: only Height = 3 is given and the original is 7 x 5: the
\* width, 21/5, is cut to 4
C16_Witness ==
    /\ dpc = "done"
    /\ tr = Transform(0, 3, 0, 0)
    /\ orig = Size(7, 5)
    /\ dims.w = 4
    /\ dims.h = 3

\* C17: newDimensions returns an error whenever origWidth or origHeight is
\* zero, and whenever no field of the policy is set; with a field set
\* (none negative) and non-zero original dimensions it succeeds; and
\* newTransform returns an error exactly when all four arguments are zero.
C17_DimensionErrors ==
    LET unset(t) ==
            t.Width = 0 /\ t.Height = 0 /\ t.MaxWidth = 0 /\ t.MaxHeight = 0
    IN  /\ dpc = "done" =>
            /\ (orig.W = 0 \/ orig.H = 0) => dims.err # NoErr
            /\ unset(tr) => dims.err # NoErr
            /\ (orig.W # 0 /\ orig.H # 0 /\ ~unset(tr)) => dims.err = NoErr
        /\ dpc # "args" => (terr # NoErr <=> unset(targs))

\* C17's case: the policy without any field, which newTransform refused,
\* has been asked for the dimensions of a 3 x 7 image and returned the
\* invalid-transform error
C17_Witness ==
    /\ dpc = "done"
    /\ terr # NoErr
    /\ orig = Size(3, 7)
    /\ dims.err.kind = "invalidTransform"

\* C18: when MaxWidth and MaxHeight are both set and the original does not
\* fit, the result is inside the box; for an original wider than the box
\* (in aspect ratio) the width is MaxWidth and the height
\* floor(origH * MaxWidth / origW), otherwise the height is MaxHeight and
\* the width floor(origW * MaxHeight / origH).
C18_FreeFormBox ==
    (/\ MaxCase
     /\ tr.MaxWidth > 0
     /\ tr.MaxHeight > 0
     /\ ~(orig.W <= tr.MaxWidth /\ orig.H <= tr.MaxHeight)) =>
        /\ dims.err = NoErr
        /\ dims.w <= tr.MaxWidth
        /\ dims.h <= tr.MaxHeight
        /\ IF orig.W * tr.MaxHeight > tr.MaxWidth * orig.H
           THEN /\ dims.w = tr.MaxWidth
                /\ dims.h = (orig.H * tr.MaxWidth) \div orig.W
           ELSE /\ dims.h = tr.MaxHeight
                /\ dims.w = (orig.W * tr.MaxHeight) \div orig.H

\* C18's case: a 7 x 5 original in a 4 x 4 box: the width is the bound and
\* the height, 20/7, is cut to 2
C18_Witness ==
    /\ MaxCase
    /\ tr.MaxWidth = 4
    /\ tr.MaxHeight = 4
    /\ orig = Size(7, 5)
    /\ dims.w = 4
    /\ dims.h = 2

(* ------------------ claims about the two-neighbour check --------------- *)

\* the first index of images whose fingerprint is at least h (one past the
\* end when there is none)
FirstAtLeast(images, h) ==
    IF \E k \in 1..Len(images) : images[k].Hash >= h
    THEN CHOOSE k \in 1..Len(images) :
            /\ images[k].Hash >= h
            /\ \A j \in 1..(k - 1) : images[j].Hash < h
    ELSE Len(images) + 1

\* C19: in perceptual mode, for an incoming fingerprint that no record of
\* Images has, with i the first index whose fingerprint is at least the
\* incoming one: add returns the near-duplicate error and changes nothing
\* if and only if Images[i] (when there is one) or Images[i-1] (when there
\* is one) is at distance 5 or less; otherwise it returns nil and the
\* record is inserted at index i. No other record has a say.
C19_TwoNeighbourCheck ==
    [][\A w \in Workers :
        (BodyStep(w) /\ UsePhash /\ cur[w].Hash \notin HashSet(Images)) =>
            LET h == cur[w].Hash
                i == FirstAtLeast(Images, h)
                near ==
                    \/ i <= Len(Images) /\ Distance(h, Images[i].Hash) <= 5
                    \/ i > 1 /\ Distance(h, Images[i - 1].Hash) <= 5
            IN  /\ near => /\ err'[w].kind = "dupNear"
                           /\ Images' = Images
                           /\ n' = n
                /\ ~near => /\ err'[w] = NoErr
                            /\ Images' = SubSeq(Images, 1, i - 1) \o <<cur[w]>>
                                            \o SubSeq(Images, i, Len(Images))
                            /\ n' = n + 1]_vars

\* C19's case: 500 has been accepted after its left neighbour 267,
\* although 100, two positions away, is at distance 3 from it
C19_Witness ==
    /\ UsePhash
    /\ HashesOf(Images) = <<100, 267, 500>>
    /\ \E w \in Workers :
        pc[w] = "added" /\ cur[w].Hash = 500 /\ err[w] = NoErr

(* ----------------------- claims about the queue ------------------------ *)

\* the paths the walker has submitted and no worker is done with yet
InFlight == sent - finished

\* C20: at every moment the number of submitted paths whose processing has
\* not finished is at most the number of workers; a submit completes only
\* in the step in which a worker receives the path, so the walker submits
\* nothing while no worker is receiving.
C20_BoundedInFlight ==
    /\ [](InFlight <= NumWorkers)
    /\ [][sent' # sent =>
            /\ sent' = sent + 1
            /\ \E w \in Workers :
                /\ pc[w] = "recv"
                /\ pc'[w] # "recv"
                /\ cur'[w].Source = files[widx].path]_vars

\* C20's case: every worker is busy with a path and the walker has a
\* further file to submit
C20_Witness ==
    /\ InFlight = NumWorkers
    /\ ~chClosed
    /\ widx <= Len(files)
    /\ \A w \in Workers : pc[w] \notin {"recv", "exit"}

(* ------------------ claims about degenerate dimensions ----------------- *)

\* C28: whenever newDimensions succeeds for positive original dimensions
\* and a policy newTransform accepted, both returned dimensions are
\* strictly positive.
C28_PositiveDimensions ==
    (/\ dpc = "done"
     /\ terr = NoErr
     /\ dims.err = NoErr
     /\ orig.W > 0
     /\ orig.H > 0) => (dims.w > 0 /\ dims.h > 0)

(* ------------------- claims about rejected add calls ------------------- *)

\* the errors with which add rejects a record as a duplicate
IsDupErr(e) == e.kind \in {"dupExact", "dupNear", "dupSame"}

SortStep(w) == pc[w] = "sorting" /\ pc'[w] # "sorting"

\* C21: in perceptual mode the initial stable sort of Images by fingerprint
\* is executed exactly once (a sort step is the one that completes the
\* once, a completed once stays completed, and at most one worker is in the
\* sort), and no worker is at the lock or in the critical section of
\* addWithPhash, or has left it, before the sort has completed.
C21_SortOnceBeforeSearch ==
    /\ [](UsePhash =>
            /\ Cardinality({w \in Workers : pc[w] = "sorting"}) <= 1
            /\ (once = "running") = (\E w \in Workers : pc[w] = "sorting")
            /\ \A w \in Workers :
                pc[w] \in {"lock", "body", "added"} => once = "done")
    /\ [][/\ once = "done" => once' = "done"
          /\ \A w \in Workers :
                SortStep(w) =>
                    /\ once = "running"
                    /\ once' = "done"
                    /\ Images' = SortStableByHash(Images)
          /\ \A w \in Workers :
                (BodyStep(w) /\ UsePhash) => once = "done"]_vars

\* C21's case: a pre-loaded snapshot that was not in fingerprint order has
\* been sorted by the first caller, and every worker has passed the once
\* with its first add call while none has changed Images yet
C21_Witness ==
    /\ UsePhash
    /\ once = "done"
    /\ Len(Images0) >= 2
    /\ Images0 # SortStableByHash(Images0)
    /\ Images = SortStableByHash(Images0)
    /\ n = 0
    /\ calls = NumWorkers
    /\ \A w \in Workers : pc[w] \in {"lock", "body"}

(* --------------------- claims about mutual exclusion ------------------- *)

\* the workers inside the compare-and-mutate section of add
InBody == {w \in Workers : pc[w] = "body"}

\* the workers executing the initial sort
InSort == {w \in Workers : pc[w] = "sorting"}

\* C22: at most one worker at a time is inside the critical section of
\* add / addWithPhash, and it holds the mutex; at most one worker executes
\* the initial sort, and while it does no worker is in the critical
\* section; the orchestrator touches Images only while every worker has
\* returned.
C22_MutualExclusion ==
    /\ Cardinality(InBody) <= 1
    /\ \A w \in Workers : pc[w] = "body" => mu = w
    /\ mu # 0 => pc[mu] = "body"
    /\ Cardinality(InSort) <= 1
    /\ InSort # {} => InBody = {}
    /\ opc # "wait" => \A w \in Workers : pc[w] = "exit"

\* C22's case: in perceptual mode, after the initial sort has reordered the
\* loaded records, one worker is inside the critical section while another
\* one is waiting for the mutex
C22_Witness ==
    /\ UsePhash
    /\ once = "done"
    /\ Images0 # SortStableByHash(Images0)
    /\ \E w1, w2 \in Workers :
        /\ w1 # w2
        /\ pc[w1] = "body"
        /\ mu = w1
        /\ pc[w2] = "lock"

(* ------------------- claims about saving the snapshot ------------------ *)

\* C25: at every point the file at the cache path holds the complete
\* snapshot of process start or the complete new snapshot, and once run
\* has returned an error no temporary file of saveCache is left.
C25_AtomicSnapshot ==
    /\ cacheFile \in {cacheFile0, SnapshotOf(UsePhash, Images)}
    /\ (opc = "exit" /\ runErr # NoErr) => tmpFile = "none"

(* ----------------- claims about paths and add calls -------------------- *)

\* the workers that hold a received path for which add has not returned
Processing ==
    {w \in Workers :
        pc[w] \in {"hash", "thumb", "link", "meta", "add", "sorting",
                   "lock", "body"}}

\* the paths of the files of the tree, in the order of the walk
WalkedPaths == [i \in 1..Len(files) |-> files[i].path]

\* C24: as long as no step has failed, every submitted path was received by
\* exactly one worker, and each received path has led to one returned add
\* call or is held by a worker on its way to it (none lost, none twice);
\* when the orchestrator has left group.Wait of such a run, every path of
\* the walk was submitted, as many add calls have returned as paths were
\* submitted, and every worker has exited.
C24_EveryPathAddedOnce ==
    /\ [](gerr = NoErr =>
            /\ Len(handed) = sent
            /\ handed = SubSeq(WalkedPaths, 1, sent)
            /\ sent = addCount + Cardinality(Processing)
            /\ finished <= addCount
            /\ \A w \in Processing : \E i \in 1..sent :
                    /\ handed[i] = cur[w].Source
                    /\ \A v \in Processing \ {w} :
                            cur[v].Source # cur[w].Source)
    /\ []((opc # "wait" /\ gerr = NoErr) =>
            /\ handed = WalkedPaths
            /\ addCount = sent
            /\ finished = sent
            /\ \A w \in Workers : pc[w] = "exit")
    /\ [][/\ sent' # sent =>
                /\ sent' = sent + 1
                /\ Cardinality({w \in Workers : cur'[w] # cur[w]}) = 1
          /\ addCount' # addCount =>
                /\ addCount' = addCount + 1
                /\ \E w \in Workers : BodyStep(w)]_vars

\* C24's case: the walk of a tree of several files has ended without any
\* failure, both add calls have returned success, and the orchestrator is
\* about to check for emptiness
C24_Witness ==
    /\ opc = "check"
    /\ gerr = NoErr
    /\ Len(files) >= 2
    /\ sent = Len(files)
    /\ addCount = sent
    /\ n = sent

(* ------------------- claims about the output files --------------------- *)

\* C23: a worker that reaches the exclusive create of a thumbnail that
\* exists goes on as if it had made it, and no worker's step returns an
\* error because the file it was about to create exists, whenever that
\* file came into being.
C23_CreateIfAbsent ==
    [][\A w \in Workers :
        /\ (pc[w] = "thumb" /\ cur[w].Hash \in thumbs /\ pc'[w] # "thumb")
            => pc'[w] = "link"
        /\ (pc[w] # "exit" /\ pc'[w] = "exit")
            => taskErr'[w].kind # "exist"]_vars

\* C27: the step in which a worker opens the thumbnail to read its
\* orientation finds the file present and completely written.
C27_ReadsCompleteThumbnail ==
    [][\A w \in Workers :
        (pc[w] = "meta" /\ pc'[w] # "meta") =>
            /\ cur[w].Hash \in thumbs
            /\ cur[w].Hash \notin thumbsPartial]_vars

====
